---- MODULE Spec2Model ----
(***************************************************************************)
(* Cost model of the dashboard conversion scripts dash_analysis.py and     *)
(* dash_cat_analysis.py.  Both scripts read the same three spreadsheets    *)
(* (dashboard catalog, effort levels, hourly rates), clean the catalog,    *)
(* join it with the effort table, compute per-row hours and costs and sum  *)
(* them into scenario totals.                                              *)
(*                                                                         *)
(* Representation.                                                         *)
(*   - A text is a sequence of one-character strings.                      *)
(*   - A spreadsheet cell that may be empty is a set: {} is the empty cell *)
(*     (pandas NaN / None), {v} holds v.  A float column that may hold NaN *)
(*     is the same: NaN == {}, so arithmetic propagates NaN by itself.     *)
(*   - Numbers are exact fixed-point integers (no rounding is modelled):   *)
(*       pages            in 1/PageDenom pages                             *)
(*       page_factor      in 1/100          (1.05 is 105)                  *)
(*       status_factor    in 1/10           (1.1 is 11)                    *)
(*       adjusted_hours   in 1/1000 hours   (base * page * status)         *)
(*       jr_hours, mgr_hours in 1/100000 hours (adjusted * pct, the /100)  *)
(*       jr_cost, mgr_cost, total_cost in 1/100000 currency units          *)
(*       contractor_total_cost in 1/1000 currency units                    *)
(***************************************************************************)
EXTENDS Integers, Sequences, FiniteSets, TLC

VARIABLES dashboard_catalog, effort_levels, hourly_rates, da, dc

vars == <<dashboard_catalog, effort_levels, hourly_rates, da, dc>>

(***************************************************************************)
(* Bounds of the checked input space.                                      *)
(***************************************************************************)
\* most rows in the catalog spreadsheet
MaxRows == 2
\* page counts range over -MaxPages .. MaxPages, in steps of 1/PageDenom
MaxPages == 12
PageDenom == 2
\* most blanks put before or after a status text
MaxPad == 1

(***************************************************************************)
(* pandas / Python primitives used by the scripts.                         *)
(***************************************************************************)
NaN == {}
Num(n) == {n}
isna(x) == x = {}
Mul(a, b) == {x * y : x \in a, y \in b}
Add(a, b) == {x + y : x \in a, y \in b}

UpperCase == <<"A","B","C","D","E","F","G","H","I","J","K","L","M",
               "N","O","P","Q","R","S","T","U","V","W","X","Y","Z">>
LowerCase == <<"a","b","c","d","e","f","g","h","i","j","k","l","m",
               "n","o","p","q","r","s","t","u","v","w","x","y","z">>

lower(c) ==
    IF \E i \in 1..Len(UpperCase) : UpperCase[i] = c
    THEN LowerCase[CHOOSE i \in 1..Len(UpperCase) : UpperCase[i] = c]
    ELSE c

upper(c) ==
    IF \E i \in 1..Len(LowerCase) : LowerCase[i] = c
    THEN UpperCase[CHOOSE i \in 1..Len(LowerCase) : LowerCase[i] = c]
    ELSE c

\* str.lower()
str_lower(s) == [i \in 1..Len(s) |-> lower(s[i])]

\* str.strip(): drops the leading and trailing blanks
str_strip(s) ==
    LET keep == {i \in 1..Len(s) : s[i] # " "}
    IN  IF keep = {} THEN <<>>
        ELSE LET lo == CHOOSE i \in keep : \A j \in keep : i <= j
                 hi == CHOOSE i \in keep : \A j \in keep : j <= i
             IN  SubSeq(s, lo, hi)

\* faulty variant: the text is lowercased but not trimmed
normalize_without_strip(s) == str_lower(s)

\* Series.str.strip().str.lower() on a text column
normalize(s) == str_lower(str_strip(s))

\* Series.astype(str): an empty cell becomes the text "nan"
astype_str(cell) ==
    IF cell = {} THEN <<"n","a","n">> ELSE CHOOSE t \in cell : TRUE


\* a float as pd.to_numeric() returns it: NaN, a finite number val/PageDenom,
\* or an infinity of sign val
FloatNaN == [kind |-> "nan", val |-> 0]
FloatNum(k) == [kind |-> "num", val |-> k]
FloatInf(sign) == [kind |-> "inf", val |-> sign]

Digits == <<"0","1","2","3","4","5","6","7","8","9">>
IsDigit(c) == \E i \in 1..Len(Digits) : Digits[i] = c
DigitValue(c) == (CHOOSE i \in 1..Len(Digits) : Digits[i] = c) - 1

RECURSIVE ParseDigits(_)
ParseDigits(t) ==
    IF Len(t) = 0 THEN 0
    ELSE 10 * ParseDigits(SubSeq(t, 1, Len(t) - 1)) + DigitValue(t[Len(t)])

\* pd.to_numeric(errors="coerce") on one cell of the pages column: an empty
\* cell and an unparsable text become NaN, the texts "inf" / "-inf" parse to
\* the float infinities, a digit text parses to its number
to_numeric(cell) ==
    CASE cell.kind = "blank" -> FloatNaN
      [] cell.kind = "num"   -> FloatNum(cell.num)
      [] OTHER ->
           LET t == str_lower(cell.text)
           IN  IF t = <<"i","n","f">> THEN FloatInf(1)
               ELSE IF t = <<"-","i","n","f">> THEN FloatInf(-1)
               ELSE IF Len(t) > 0 /\ \A i \in 1..Len(t) : IsDigit(t[i])
                    THEN FloatNum(ParseDigits(t) * PageDenom)
               ELSE FloatNaN

\* int() of a finite float val/PageDenom: truncation toward zero
int(k) == IF k >= 0 THEN k \div PageDenom ELSE -((-k) \div PageDenom)

\* min(a, b)
min(a, b) == IF a <= b THEN a ELSE b

\* Series.str on the level column: a column with rows but without any text is
\* read as a float column, and the accessor raises AttributeError on it
str_raises(table) ==
    /\ Len(table) > 0
    /\ \A i \in 1..Len(table) : table[i].estimated_conversion_level = {}

\* faulty variant: only the dashboard name is required
dropna_name_only(table) ==
    LET indexed == [i \in 1..Len(table) |-> [index |-> i] @@ table[i]]
        complete(r) == r.dashboard_name # {}
    IN  SelectSeq(indexed, complete)

\* DataFrame.dropna(subset=[name, level]) keeping the spreadsheet's row index
dropna(table) ==
    LET indexed == [i \in 1..Len(table) |-> [index |-> i] @@ table[i]]
        complete(r) == r.dashboard_name # {} /\ r.estimated_conversion_level # {}
    IN  SelectSeq(indexed, complete)

\* df[col] = ... : the frame with the columns cols added to (or replacing those
\* of) its rows, row by row
assign(df, cols) == [i \in 1..Len(df) |-> cols[i] @@ df[i]]

\* Series.map(effort_lookup[col]): the cell of the row keyed by the value,
\* NaN when no row has that key
map_lookup(lookup, key, col) ==
    LET hits == {i \in 1..Len(lookup) : key = {lookup[i].conversion_level}}
    IN  IF hits = {} THEN NaN ELSE lookup[CHOOSE i \in hits : TRUE][col]

\* set_index("position")["hourly rates"].to_dict(): the last row of a
\* position wins
to_dict(table) ==
    LET keys == {table[i].position : i \in 1..Len(table)}
        last(k) == CHOOSE i \in 1..Len(table) :
                      /\ table[i].position = k
                      /\ \A j \in 1..Len(table) : table[j].position = k => j <= i
    IN  [k \in keys |-> table[last(k)].hourly_rates]

\* dict.get(key, default)
get(d, key, default) == IF key \in DOMAIN d THEN d[key] ELSE default

\* faulty variant: a NaN cell makes the sum NaN (skipna=False)
RECURSIVE sum_with_nan(_, _)
sum_with_nan(df, col) ==
    IF Len(df) = 0 THEN Num(0) ELSE Add(df[1][col], sum_with_nan(Tail(df), col))

\* Series.sum(): NaN cells are skipped, an empty column sums to 0
RECURSIVE sum(_, _)
sum(df, col) ==
    IF Len(df) = 0 THEN Num(0)
    ELSE LET cell == df[1][col]
         IN  IF isna(cell) THEN sum(Tail(df), col)
             ELSE Add(cell, sum(Tail(df), col))

\* state' of a script: the assignments of one section laid over the old state
step(state, assigned) == assigned @@ state

\* what a call of page_multiplier does: it returns a value or raises
Returned(v) == [raised |-> FALSE, value |-> v]
Raised == [raised |-> TRUE, value |-> 0]

(***************************************************************************)
(* dash_analysis.py                                                        *)
(***************************************************************************)
\* lines 16-26: drop incomplete rows, rename, normalise; .str methods
\* leave an empty cell empty
clean(table) ==
    LET renamed(r) ==
            [index            |-> r.index,
             dashboard        |-> r.dashboard_name,
             conversion_level |-> {normalize(t) : t \in r.estimated_conversion_level},
             status           |-> normalize(astype_str(r.status)),
             pages            |-> to_numeric(r.available_data_pages)]
        kept == dropna(table)
    IN  [i \in 1..Len(kept) |-> renamed(kept[i])]

Clean ==
    /\ da.pc = "clean"
    /\ IF str_raises(dashboard_catalog)
       THEN da' = step(da, [pc |-> "error", raised |-> "AttributeError"])
       ELSE da' = step(da, [pc |-> "map", dashboard_df |-> clean(dashboard_catalog)])
    /\ UNCHANGED <<dashboard_catalog, effort_levels, hourly_rates, dc>>

\* lines 28-30
effort_lookup(table) ==
    [i \in 1..Len(table) |->
        [table[i] EXCEPT !.conversion_level = normalize(table[i].conversion_level)]]

\* lines 31-33
map_effort(df, lookup) ==
    LET cols(r) ==
          [base_hours  |-> map_lookup(lookup, r.conversion_level, "conversion_rate_hrs"),
           junior_pct  |-> map_lookup(lookup, r.conversion_level, "junior_analyst_efforts"),
           manager_pct |-> map_lookup(lookup, r.conversion_level, "manager_efforts")]
    IN  assign(df, [i \in 1..Len(df) |-> cols(df[i])])

MapEffort ==
    /\ da.pc = "map"
    /\ LET lookup == effort_lookup(effort_levels)
       IN  da' = step(da, [pc |-> "pages", effort_lookup |-> lookup,
                           dashboard_df |-> map_effort(da.dashboard_df, lookup)])
    /\ UNCHANGED <<dashboard_catalog, effort_levels, hourly_rates, dc>>

\* lines 40-43
scale ==
    (1 :> 100) @@ (2 :> 105) @@ (3 :> 110) @@ (4 :> 115) @@ (5 :> 120) @@
    (6 :> 125) @@ (7 :> 130) @@ (8 :> 135) @@ (9 :> 140) @@ (10 :> 145)

\* faulty variant: the page count is not capped at 10
page_multiplier_uncapped(pages) ==
    IF pages.kind = "nan" THEN Returned(100)
    ELSE IF pages.kind = "inf" THEN Raised
    ELSE Returned(get(scale, int(pages.val), 100))

\* lines 36-44; int() of an infinity raises OverflowError
page_multiplier(pages) ==
    IF pages.kind = "nan" THEN Returned(100)
    ELSE IF pages.kind = "inf" THEN Raised
    ELSE LET p == min(int(pages.val), 10)
         IN  Returned(get(scale, p, 100))

\* line 46: Series.apply(page_multiplier)
apply_page_multiplier(df) ==
    LET cols(r) == [page_factor |-> Num(page_multiplier(r.pages).value)]
    IN  assign(df, [i \in 1..Len(df) |-> cols(df[i])])

\* an exception in one call ends the script
apply_raises(df) == \E i \in 1..Len(df) : page_multiplier(df[i].pages).raised

PageFactor ==
    /\ da.pc = "pages"
    /\ IF apply_raises(da.dashboard_df)
       THEN da' = step(da, [pc |-> "error", raised |-> "OverflowError"])
       ELSE da' = step(da, [pc |-> "status",
                    dashboard_df |-> apply_page_multiplier(da.dashboard_df)])
    /\ UNCHANGED <<dashboard_catalog, effort_levels, hourly_rates, dc>>

\* lines 49-53
status_multiplier ==
    (<<"a","c","t","i","v","e">> :> 10) @@
    (<<"i","n"," ","p","r","o","g","r","e","s","s">> :> 11) @@
    (<<"b","r","o","k","e","n">> :> 13)

\* faulty variant: a status that is no key gets the factor 1.0
map_status_with_default(df) ==
    LET cols(r) ==
          [status_factor |->
              IF r.status \in DOMAIN status_multiplier
              THEN Num(status_multiplier[r.status]) ELSE Num(10)]
    IN  assign(df, [i \in 1..Len(df) |-> cols(df[i])])

\* line 54: Series.map(dict), NaN for a value that is no key
map_status(df) ==
    LET cols(r) ==
          [status_factor |->
              IF r.status \in DOMAIN status_multiplier
              THEN Num(status_multiplier[r.status]) ELSE NaN]
    IN  assign(df, [i \in 1..Len(df) |-> cols(df[i])])

StatusFactor ==
    /\ da.pc = "status"
    /\ da' = step(da, [pc |-> "hours", dashboard_df |-> map_status(da.dashboard_df)])
    /\ UNCHANGED <<dashboard_catalog, effort_levels, hourly_rates, dc>>

\* faulty variant: the status factor is left out of the product
adjusted_hours_without_status(r) == Mul(r.base_hours, r.page_factor)

\* lines 57-61
adjusted_hours(r) == Mul(Mul(r.base_hours, r.page_factor), r.status_factor)

\* lines 63-64: adjusted_hours * (pct / 100)
role_hours(adjusted, pct) == Mul(adjusted, pct)

hours(df) ==
    LET cols(r) ==
          [adjusted_hours |-> adjusted_hours(r),
           jr_hours       |-> role_hours(adjusted_hours(r), r.junior_pct),
           mgr_hours      |-> role_hours(adjusted_hours(r), r.manager_pct)]
    IN  assign(df, [i \in 1..Len(df) |-> cols(df[i])])

AdjustedHours ==
    /\ da.pc = "hours"
    /\ da' = step(da, [pc |-> "costs", dashboard_df |-> hours(da.dashboard_df)])
    /\ UNCHANGED <<dashboard_catalog, effort_levels, hourly_rates, dc>>

\* faulty variant: no default for a role without an entry
jr_rate_without_default(table) == get(to_dict(table), "Junior Analyst", NaN)

\* lines 67-69
jr_rate(table) == get(to_dict(table), "Junior Analyst", Num(0))
mgr_rate(table) == get(to_dict(table), "Manager", Num(0))

\* faulty variant: total_cost leaves out the manager's cost
costs_without_manager(df, jr, mgr) ==
    LET cols(r) ==
          LET jr_cost == Mul(r.jr_hours, jr)
              mgr_cost == Mul(r.mgr_hours, mgr)
          IN  [jr_cost |-> jr_cost, mgr_cost |-> mgr_cost, total_cost |-> jr_cost]
    IN  assign(df, [i \in 1..Len(df) |-> cols(df[i])])

\* lines 71-73
costs(df, jr, mgr) ==
    LET cols(r) ==
          LET jr_cost == Mul(r.jr_hours, jr)
              mgr_cost == Mul(r.mgr_hours, mgr)
          IN  [jr_cost |-> jr_cost, mgr_cost |-> mgr_cost,
               total_cost |-> Add(jr_cost, mgr_cost)]
    IN  assign(df, [i \in 1..Len(df) |-> cols(df[i])])

ApplyRates ==
    /\ da.pc = "costs"
    /\ LET jr == jr_rate(hourly_rates)
           mgr == mgr_rate(hourly_rates)
       IN  da' = step(da, [pc |-> "totals", jr_rate |-> jr, mgr_rate |-> mgr,
                           dashboard_df |-> costs(da.dashboard_df, jr, mgr)])
    /\ UNCHANGED <<dashboard_catalog, effort_levels, hourly_rates, dc>>

\* line 81
contractor_rate == 43

\* line 82
contractor_total_cost(total_hours) == Mul(total_hours, Num(contractor_rate))

\* lines 76-82
Totals ==
    /\ da.pc = "totals"
    /\ LET total_hours == sum(da.dashboard_df, "adjusted_hours")
       IN  da' = step(da, [pc |-> "report",
                    total_hours    |-> total_hours,
                    total_jr_cost  |-> sum(da.dashboard_df, "jr_cost"),
                    total_mgr_cost |-> sum(da.dashboard_df, "mgr_cost"),
                    contractor_total_cost |-> contractor_total_cost(total_hours)])
    /\ UNCHANGED <<dashboard_catalog, effort_levels, hourly_rates, dc>>

\* lines 110-111 and 165-167: the two scenario totals that the chart labels
\* and the summary show
Report ==
    /\ da.pc = "report"
    /\ da' = step(da, [pc |-> "done",
                 role_split_total  |-> Add(da.total_jr_cost, da.total_mgr_cost),
                 single_rate_total |-> da.contractor_total_cost])
    /\ UNCHANGED <<dashboard_catalog, effort_levels, hourly_rates, dc>>

(***************************************************************************)
(* dash_cat_analysis.py                                                    *)
(***************************************************************************)
\* lines 16-25: drop incomplete rows, rename, normalise; .str methods
\* leave an empty cell empty
cat_clean(table) ==
    LET renamed(r) ==
            [index            |-> r.index,
             dashboard        |-> r.dashboard_name,
             conversion_level |-> {normalize(t) : t \in r.estimated_conversion_level},
             status           |-> normalize(astype_str(r.status)),
             pages            |-> to_numeric(r.available_data_pages)]
        kept == dropna(table)
    IN  [i \in 1..Len(kept) |-> renamed(kept[i])]

cat_Clean ==
    /\ dc.pc = "clean"
    /\ IF str_raises(dashboard_catalog)
       THEN dc' = step(dc, [pc |-> "error", raised |-> "AttributeError"])
       ELSE dc' = step(dc, [pc |-> "map", dashboard_df |-> cat_clean(dashboard_catalog)])
    /\ UNCHANGED <<dashboard_catalog, effort_levels, hourly_rates, da>>

\* lines 28-29
cat_effort_lookup(table) ==
    [i \in 1..Len(table) |->
        [table[i] EXCEPT !.conversion_level = normalize(table[i].conversion_level)]]

\* lines 30-32
cat_map_effort(df, lookup) ==
    LET cols(r) ==
          [base_hours  |-> map_lookup(lookup, r.conversion_level, "conversion_rate_hrs"),
           junior_pct  |-> map_lookup(lookup, r.conversion_level, "junior_analyst_efforts"),
           manager_pct |-> map_lookup(lookup, r.conversion_level, "manager_efforts")]
    IN  assign(df, [i \in 1..Len(df) |-> cols(df[i])])

cat_MapEffort ==
    /\ dc.pc = "map"
    /\ LET lookup == cat_effort_lookup(effort_levels)
       IN  dc' = step(dc, [pc |-> "pages", effort_lookup |-> lookup,
                           dashboard_df |-> cat_map_effort(dc.dashboard_df, lookup)])
    /\ UNCHANGED <<dashboard_catalog, effort_levels, hourly_rates, da>>

\* faulty variant: one entry of the table differs from the other script's
cat_scale_with_typo ==
    (1 :> 100) @@ (2 :> 105) @@ (3 :> 115) @@ (4 :> 115) @@ (5 :> 120) @@
    (6 :> 125) @@ (7 :> 130) @@ (8 :> 135) @@ (9 :> 140) @@ (10 :> 145)

\* lines 39-50
cat_scale ==
    (1 :> 100) @@ (2 :> 105) @@ (3 :> 110) @@ (4 :> 115) @@ (5 :> 120) @@
    (6 :> 125) @@ (7 :> 130) @@ (8 :> 135) @@ (9 :> 140) @@ (10 :> 145)

\* lines 35-51; int() of an infinity raises OverflowError
cat_page_multiplier(pages) ==
    IF pages.kind = "nan" THEN Returned(100)
    ELSE IF pages.kind = "inf" THEN Raised
    ELSE LET p == min(int(pages.val), 10)
         IN  Returned(get(cat_scale, p, 100))

\* line 53: Series.apply(page_multiplier)
cat_apply_page_multiplier(df) ==
    LET cols(r) == [page_factor |-> Num(cat_page_multiplier(r.pages).value)]
    IN  assign(df, [i \in 1..Len(df) |-> cols(df[i])])

\* an exception in one call ends the script
cat_apply_raises(df) == \E i \in 1..Len(df) : cat_page_multiplier(df[i].pages).raised

cat_PageFactor ==
    /\ dc.pc = "pages"
    /\ IF cat_apply_raises(dc.dashboard_df)
       THEN dc' = step(dc, [pc |-> "error", raised |-> "OverflowError"])
       ELSE dc' = step(dc, [pc |-> "status",
                    dashboard_df |-> cat_apply_page_multiplier(dc.dashboard_df)])
    /\ UNCHANGED <<dashboard_catalog, effort_levels, hourly_rates, da>>

\* lines 56-60
cat_status_multiplier ==
    (<<"a","c","t","i","v","e">> :> 10) @@
    (<<"i","n"," ","p","r","o","g","r","e","s","s">> :> 11) @@
    (<<"b","r","o","k","e","n">> :> 13)

\* line 61: Series.map(dict), NaN for a value that is no key
cat_map_status(df) ==
    LET cols(r) ==
          [status_factor |->
              IF r.status \in DOMAIN cat_status_multiplier
              THEN Num(cat_status_multiplier[r.status]) ELSE NaN]
    IN  assign(df, [i \in 1..Len(df) |-> cols(df[i])])

cat_StatusFactor ==
    /\ dc.pc = "status"
    /\ dc' = step(dc, [pc |-> "hours", dashboard_df |-> cat_map_status(dc.dashboard_df)])
    /\ UNCHANGED <<dashboard_catalog, effort_levels, hourly_rates, da>>

\* lines 64-68
cat_adjusted_hours(r) == Mul(Mul(r.base_hours, r.page_factor), r.status_factor)

\* lines 71-72: adjusted_hours * (pct / 100)
cat_role_hours(adjusted, pct) == Mul(adjusted, pct)

cat_hours(df) ==
    LET cols(r) ==
          [adjusted_hours |-> cat_adjusted_hours(r),
           jr_hours       |-> cat_role_hours(cat_adjusted_hours(r), r.junior_pct),
           mgr_hours      |-> cat_role_hours(cat_adjusted_hours(r), r.manager_pct)]
    IN  assign(df, [i \in 1..Len(df) |-> cols(df[i])])

cat_AdjustedHours ==
    /\ dc.pc = "hours"
    /\ dc' = step(dc, [pc |-> "costs", dashboard_df |-> cat_hours(dc.dashboard_df)])
    /\ UNCHANGED <<dashboard_catalog, effort_levels, hourly_rates, da>>

\* lines 75-77
cat_jr_rate(table) == get(to_dict(table), "Junior Analyst", Num(0))
cat_mgr_rate(table) == get(to_dict(table), "Manager", Num(0))

\* lines 79-81
cat_costs(df, jr, mgr) ==
    LET cols(r) ==
          LET jr_cost == Mul(r.jr_hours, jr)
              mgr_cost == Mul(r.mgr_hours, mgr)
          IN  [jr_cost |-> jr_cost, mgr_cost |-> mgr_cost,
               total_cost |-> Add(jr_cost, mgr_cost)]
    IN  assign(df, [i \in 1..Len(df) |-> cols(df[i])])

cat_ApplyRates ==
    /\ dc.pc = "costs"
    /\ LET jr == cat_jr_rate(hourly_rates)
           mgr == cat_mgr_rate(hourly_rates)
       IN  dc' = step(dc, [pc |-> "totals", jr_rate |-> jr, mgr_rate |-> mgr,
                           dashboard_df |-> cat_costs(dc.dashboard_df, jr, mgr)])
    /\ UNCHANGED <<dashboard_catalog, effort_levels, hourly_rates, da>>

\* line 112
cat_contractor_total_cost(total_hours, jr) == Mul(total_hours, jr)

\* lines 84-85, 109 and 112
cat_Totals ==
    /\ dc.pc = "totals"
    /\ LET total_hours == sum(dc.dashboard_df, "adjusted_hours")
       IN  dc' = step(dc, [pc |-> "report",
                    total_jr_cost  |-> sum(dc.dashboard_df, "jr_cost"),
                    total_mgr_cost |-> sum(dc.dashboard_df, "mgr_cost"),
                    total_hours    |-> total_hours,
                    contractor_total_cost |-> cat_contractor_total_cost(total_hours, dc.jr_rate)])
    /\ UNCHANGED <<dashboard_catalog, effort_levels, hourly_rates, da>>

\* line 176
all_jr_cost(total_hours, jr) == Mul(total_hours, jr)

\* lines 175-180: total_hours is summed again, then the summary is printed
cat_Report ==
    /\ dc.pc = "report"
    /\ LET total_hours == sum(dc.dashboard_df, "adjusted_hours")
       IN  dc' = step(dc, [pc |-> "done",
                    total_hours       |-> total_hours,
                    role_split_total  |-> Add(dc.total_jr_cost, dc.total_mgr_cost),
                    single_rate_total |-> all_jr_cost(total_hours, dc.jr_rate)])
    /\ UNCHANGED <<dashboard_catalog, effort_levels, hourly_rates, da>>

Next ==
    \/ Clean \/ MapEffort \/ PageFactor \/ StatusFactor
    \/ AdjustedHours \/ ApplyRates \/ Totals \/ Report
    \/ cat_Clean \/ cat_MapEffort \/ cat_PageFactor \/ cat_StatusFactor
    \/ cat_AdjustedHours \/ cat_ApplyRates \/ cat_Totals \/ cat_Report

(***************************************************************************)
(* The spreadsheets the scripts are run on.                                *)
(***************************************************************************)
Blank == {}
Cell(v) == {v}
NumPages(k) == [kind |-> "num", num |-> k, text |-> <<>>]
TextPages(t) == [kind |-> "text", num |-> 0, text |-> t]
BlankPages == [kind |-> "blank", num |-> 0, text |-> <<>>]

Row(name, level, pages, status) ==
    [dashboard_name |-> name, estimated_conversion_level |-> level,
     available_data_pages |-> pages, status |-> status]

\* the scenario row of the specification: 3 pages, level medium ("Low" here), active
BaseRow ==
    Row(Cell("Sales"), Cell(<<" ","L","o","w">>), NumPages(3 * PageDenom),
        Cell(<<"A","c","t","i","v","e">>))

\* catalog rows: the scenario row and rows that differ from it in their name,
\* level, pages or status cells
RowCells ==
    { BaseRow,
      [BaseRow EXCEPT !.dashboard_name = Blank],
      [BaseRow EXCEPT !.estimated_conversion_level = Blank],
      Row(Cell("Ops"), Cell(<<"H","I","G","H"," ">>), BlankPages,
          Cell(<<" ","I","n"," ","P","r","o","g","r","e","s","s">>)),
      [BaseRow EXCEPT !.estimated_conversion_level = Cell(<<"z","z","z">>)],
      [BaseRow EXCEPT !.status = Cell(<<"u","n","k","n","o","w","n">>)],
      Row(Cell("HR"), Cell(<<"l","o","w">>), TextPages(<<"n","/","a">>), Blank),
      Row(Cell("Web"), Cell(<<"h","i","g","h">>), NumPages(15 * PageDenom),
          Cell(<<"b","r","o","k","e","n">>)),
      [BaseRow EXCEPT !.available_data_pages = TextPages(<<"i","n","f">>)] }

\* the catalogs of 1 to MaxRows rows
Catalogs == UNION {[1..n -> RowCells] : n \in 1..MaxRows}

EffortRow(level, hrs, jr, mgr) ==
    [conversion_level |-> level, conversion_rate_hrs |-> hrs,
     junior_analyst_efforts |-> jr, manager_efforts |-> mgr]

EffortTable(jr, mgr) ==
    << EffortRow(<<"L","o","w">>, Num(10), jr, mgr),
       EffortRow(<<"H","i","g","h"," ">>, Num(8), Num(60), Num(60)) >>

\* the scenario table, and tables with one percentage cell of "low" empty
EffortTables ==
    { EffortTable(Num(70), Num(30)), EffortTable(NaN, Num(30)),
      EffortTable(Num(70), NaN) }

RateRow(position, rate) == [position |-> position, hourly_rates |-> rate]

\* the scenario table; a junior rate equal to the contractor rate; tables
\* without an entry for a role (left out, or spelled in another case); tables
\* with an empty rate cell
RateTables ==
    { << RateRow("Junior Analyst", Num(50)), RateRow("Manager", Num(100)) >>,
      << RateRow("Junior Analyst", Num(43)), RateRow("Manager", Num(100)) >>,
      << RateRow("Manager", Num(100)) >>,
      << RateRow("Junior Analyst", Num(50)), RateRow("manager", Num(100)) >>,
      << RateRow("Junior Analyst", NaN), RateRow("Manager", Num(100)) >>,
      << RateRow("Junior Analyst", Num(50)), RateRow("Manager", NaN) >>,
      << >> }

ScenarioEffort == EffortTable(Num(70), Num(30))
ScenarioRates ==
    << RateRow("Junior Analyst", Num(50)), RateRow("Manager", Num(100)) >>

\* the tables that the catalogs of Catalogs are run with: the scenario tables,
\* an effort table with an empty percentage cell, a rate table without a role
Tables ==
    { <<ScenarioEffort, ScenarioRates>>,
      <<EffortTable(NaN, Num(30)), ScenarioRates>>,
      <<ScenarioEffort, << RateRow("Manager", Num(100)) >> >> }

Start == [pc |-> "clean"]

\* every catalog of up to MaxRows rows, run with a few tables
Init ==
    /\ dashboard_catalog \in Catalogs
    /\ \E t \in Tables : effort_levels = t[1] /\ hourly_rates = t[2]
    /\ da = Start
    /\ dc = Start

Spec == Init /\ [][Next]_vars

\* the catalog rows that every pair of tables is run with: the scenario row,
\* a row of the other level, a row with an unrecognized status and a row
\* without a name
TableRunRows ==
    { BaseRow,
      Row(Cell("Ops"), Cell(<<"H","I","G","H"," ">>), BlankPages,
          Cell(<<" ","I","n"," ","P","r","o","g","r","e","s","s">>)),
      [BaseRow EXCEPT !.status = Cell(<<"u","n","k","n","o","w","n">>)],
      [BaseRow EXCEPT !.dashboard_name = Blank] }

\* every effort table with every rate table, run on a few catalogs
InitTables ==
    /\ dashboard_catalog \in UNION {[1..n -> TableRunRows] : n \in 1..MaxRows}
    /\ effort_levels \in EffortTables
    /\ hourly_rates \in RateTables
    /\ da = Start
    /\ dc = Start

SpecTables == InitTables /\ [][Next]_vars

\* page cells: empty, every multiple of 1/PageDenom from -NegPages to
\* MaxPages, and texts
NegPages == 2
PageCells ==
    {BlankPages}
    \cup {NumPages(k) : k \in (0 - NegPages * PageDenom) .. (MaxPages * PageDenom)}
    \cup {TextPages(<<"i","n","f">>), TextPages(<<"-","I","n","f">>),
          TextPages(<<"n","/","a">>), TextPages(<<"1","2">>)}

\* two catalog rows that differ from the scenario row in their pages only
InitPages ==
    /\ \E p \in PageCells, q \in PageCells :
          dashboard_catalog = << [BaseRow EXCEPT !.available_data_pages = p],
                                 [BaseRow EXCEPT !.available_data_pages = q] >>
    /\ effort_levels = ScenarioEffort
    /\ hourly_rates = ScenarioRates
    /\ da = Start
    /\ dc = Start

SpecPages == InitPages /\ [][Next]_vars

\* status texts: words in lower case, upper case and capitalised, with up to
\* MaxPad blanks before and after
str_upper(s) == [i \in 1..Len(s) |-> upper(s[i])]
capitalize(s) == [i \in 1..Len(s) |-> IF i = 1 THEN upper(s[i]) ELSE s[i]]
RECURSIVE blanks(_)
blanks(n) == IF n = 0 THEN <<>> ELSE <<" ">> \o blanks(n - 1)

StatusWords ==
    { <<"a","c","t","i","v","e">>,
      <<"i","n"," ","p","r","o","g","r","e","s","s">>,
      <<"b","r","o","k","e","n">>,
      <<"a","c","t","i","v">>,
      <<"a","c","t","i","v","e","s">>,
      <<"i","n","p","r","o","g","r","e","s","s">>,
      <<"i","n"," "," ","p","r","o","g","r","e","s","s">>,
      <<"d","o","n","e">>,
      <<"n","a","n">>,
      << >> }

StatusCells ==
    {Blank} \cup
    { Cell(blanks(l) \o w \o blanks(r)) :
        l \in 0..MaxPad, r \in 0..MaxPad,
        w \in UNION {{x, str_upper(x), capitalize(x)} : x \in StatusWords} }

\* one catalog row that differs from the scenario row in its status only
InitStatus ==
    /\ \E st \in StatusCells : dashboard_catalog = << [BaseRow EXCEPT !.status = st] >>
    /\ effort_levels = ScenarioEffort
    /\ hourly_rates = ScenarioRates
    /\ da = Start
    /\ dc = Start

SpecStatus == InitStatus /\ [][Next]_vars

(***************************************************************************)
(* The scripts as functions of their spreadsheets: dashboard_df as it is   *)
(* after the cost section, and whether the page section raises.            *)
(***************************************************************************)
\* dash_analysis.py lines 16-73
frame(catalog, efforts, rates) ==
    costs(hours(map_status(apply_page_multiplier(
              map_effort(clean(catalog), effort_lookup(efforts))))),
          jr_rate(rates), mgr_rate(rates))

\* dash_cat_analysis.py lines 16-81
cat_frame(catalog, efforts, rates) ==
    cat_costs(cat_hours(cat_map_status(cat_apply_page_multiplier(
              cat_map_effort(cat_clean(catalog), cat_effort_lookup(efforts))))),
          cat_jr_rate(rates), cat_mgr_rate(rates))

(***************************************************************************)
(* Vocabulary of the properties.                                           *)
(***************************************************************************)
Failed(s) == s.pc = "error"
HasFrame(s) == s.pc # "clean" /\ ~(Failed(s) /\ s.raised = "AttributeError")
HasPageFactor(s) == s.pc \in {"status", "hours", "costs", "totals", "report", "done"}
HasStatusFactor(s) == s.pc \in {"hours", "costs", "totals", "report", "done"}
HasCosts(s) == s.pc \in {"totals", "report", "done"}
HasTotals(s) == s.pc \in {"report", "done"}
Done(s) == s.pc = "done"

\* the value of a defined cell
Val(cell) == CHOOSE x \in cell : TRUE

\* product and sum of two cells, undefined when an operand is undefined
Times(a, b) == IF a = {} \/ b = {} THEN {} ELSE {Val(a) * Val(b)}
Plus(a, b) == IF a = {} \/ b = {} THEN {} ELSE {Val(a) + Val(b)}

\* the sum of a column over the rows I
RECURSIVE SumOver(_, _, _)
SumOver(df, col, I) ==
    IF I = {} THEN 0
    ELSE LET i == CHOOSE x \in I : TRUE
         IN  Val(df[i][col]) + SumOver(df, col, I \ {i})

Defined(df, col) == {i \in 1..Len(df) : df[i][col] # {}}
SumDefined(df, col) == {SumOver(df, col, Defined(df, col))}

\* a sequence without its i-th element
Without(seq, i) == SubSeq(seq, 1, i - 1) \o SubSeq(seq, i + 1, Len(seq))

Active == <<"a","c","t","i","v","e">>
InProgress == <<"i","n"," ","p","r","o","g","r","e","s","s">>
Broken == <<"b","r","o","k","e","n">>
ValidStatus == {Active, InProgress, Broken}

\* the keys of the effort table, trimmed and lowercased
LevelKeys == {{normalize(effort_levels[i].conversion_level)} : i \in 1..Len(effort_levels)}

Recognized(r) == r.conversion_level \in LevelKeys /\ r.status \in ValidStatus

DerivedFields == {"adjusted_hours", "jr_hours", "mgr_hours", "jr_cost", "mgr_cost", "total_cost"}
Derived(df) == [i \in 1..Len(df) |-> [f \in DerivedFields |-> df[i][f]]]

ScenarioTables == effort_levels = ScenarioEffort /\ hourly_rates = ScenarioRates

\* some catalog row has a pages cell that parses to an infinity
InfinitePages == \E i \in 1..Len(dashboard_catalog) :
                    to_numeric(dashboard_catalog[i].available_data_pages).kind = "inf"

\* the catalog has rows and none of them has a conversion level
NoLevelAtAll ==
    /\ Len(dashboard_catalog) > 0
    /\ \A i \in 1..Len(dashboard_catalog) :
          dashboard_catalog[i].estimated_conversion_level = {}

\* a run fails only in these two ways
FailsOnlyOnInput(s) ==
    Failed(s) => \/ s.raised = "OverflowError" /\ InfinitePages
                 \/ s.raised = "AttributeError" /\ NoLevelAtAll

(***************************************************************************)
(* C1                                                                      *)
(***************************************************************************)
C1Row(s, r) ==
    /\ r.page_factor # {} /\ r.status_factor # {}
    /\ r.adjusted_hours = Times(Times(r.base_hours, r.page_factor), r.status_factor)
    /\ r.jr_hours = Times(r.adjusted_hours, r.junior_pct)
    /\ r.mgr_hours = Times(r.adjusted_hours, r.manager_pct)
    /\ r.jr_cost = Times(r.jr_hours, s.jr_rate)
    /\ r.mgr_cost = Times(r.mgr_hours, s.mgr_rate)
    /\ r.total_cost = Plus(r.jr_cost, r.mgr_cost)
    /\ (ScenarioTables /\ dashboard_catalog[r.index] = BaseRow) =>
          /\ r.base_hours = {10} /\ r.junior_pct = {70} /\ r.manager_pct = {30}
          /\ r.adjusted_hours = {11000}
          /\ r.jr_hours = {770000} /\ r.mgr_hours = {330000}
          /\ r.jr_cost = {38500000} /\ r.mgr_cost = {33000000}
          /\ r.total_cost = {71500000}

\* C1: in both scripts, every row whose level is a key of the effort table and
\* whose status is active / in progress / broken has adjusted_hours = base_hours
\* * page_factor * status_factor, role hours = adjusted_hours * pct / 100, role
\* costs = role hours * rate and total_cost = jr_cost + mgr_cost; the scenario
\* row (10 h, 3 pages, active, 70/30, rates 50 and 100) gets 11.0 h, 385.0,
\* 330.0 and 715.0.
C1_CostFormulas ==
    \A s \in {da, dc} :
        HasCosts(s) =>
            \A i \in 1..Len(s.dashboard_df) :
                Recognized(s.dashboard_df[i]) => C1Row(s, s.dashboard_df[i])

C1_Witness ==
    /\ Done(da) /\ Done(dc) /\ ScenarioTables
    /\ \E i \in 1..Len(da.dashboard_df) :
          /\ dashboard_catalog[da.dashboard_df[i].index] = BaseRow
          /\ da.dashboard_df[i].total_cost = {71500000}
          /\ dc.dashboard_df[i].total_cost = {71500000}

(***************************************************************************)
(* C2                                                                      *)
(***************************************************************************)
\* floor of a finite page count val/PageDenom
Floor(k) == k \div PageDenom

\* 1.0 + 0.05 * (e - 1) for e = min(floor(pages), 10) in 1..10, else 1.0
ExpectedPageFactor(pages) ==
    IF pages.kind # "num" THEN 100
    ELSE LET e == IF Floor(pages.val) <= 10 THEN Floor(pages.val) ELSE 10
         IN  IF e \in 1..10 THEN 100 + 5 * (e - 1) ELSE 100

PageFactorsAsExpected(s) ==
    HasPageFactor(s) =>
        \A i \in 1..Len(s.dashboard_df) :
            s.dashboard_df[i].page_factor = {ExpectedPageFactor(s.dashboard_df[i].pages)}

\* C2: page_multiplier returns 1.0 for an absent page count and otherwise
\* 1.0 + 0.05 * (e - 1) for e = min(floor(pages), 10) in 1..10 and 1.0 for any
\* other e, and it never raises an error.
C2_PageMultiplierTotal ==
    \A s \in {da, dc} : ~Failed(s) /\ PageFactorsAsExpected(s)

\* the value part of C2 alone: whenever page_multiplier returns, it returns the
\* stated value (absent, negative, zero, fractional and capped page counts)
C2_ValueWhenReturned ==
    \A s \in {da, dc} : PageFactorsAsExpected(s)

(***************************************************************************)
(* C3                                                                      *)
(***************************************************************************)
\* the text t, trimmed and lowercased, is exactly the word w
TrimsTo(t, w) ==
    \E l \in 0..Len(t) :
        /\ Len(t) >= l + Len(w)
        /\ \A i \in 1..l : t[i] = " "
        /\ \A i \in 1..Len(w) : lower(t[l + i]) = w[i]
        /\ \A i \in (l + Len(w) + 1)..Len(t) : t[i] = " "

\* the text of a status cell: an absent cell reads "nan"
StatusText(cell) == IF cell = {} THEN <<"n","a","n">> ELSE Val(cell)

ExpectedStatusFactor(cell) ==
    LET t == StatusText(cell)
    IN  IF TrimsTo(t, Active) THEN {10}
        ELSE IF TrimsTo(t, InProgress) THEN {11}
        ELSE IF TrimsTo(t, Broken) THEN {13}
        ELSE {}

\* C3: a row's status factor is 1.0 for "active", 1.1 for "in progress" and 1.3
\* for "broken" after trimming and lowercasing the status cell, and undefined
\* for every other text, the text of an absent cell included.
C3_StatusFactor ==
    \A s \in {da, dc} :
        HasStatusFactor(s) =>
            \A i \in 1..Len(s.dashboard_df) :
                LET r == s.dashboard_df[i]
                IN  r.status_factor = ExpectedStatusFactor(dashboard_catalog[r.index].status)

C3_Witness ==
    /\ HasStatusFactor(da) /\ HasStatusFactor(dc)
    /\ Len(da.dashboard_df) = 1
    /\ dashboard_catalog[1].status = {<<" ","I","N"," ","P","R","O","G","R","E","S","S"," ">>}
    /\ da.dashboard_df[1].status_factor = {11}
    /\ dc.dashboard_df[1].status_factor = {11}

\* a near miss and the absent cell leave the factor undefined
C3_WitnessUndefined ==
    /\ HasStatusFactor(da)
    /\ dashboard_catalog[1].status = {}
    /\ da.dashboard_df[1].status_factor = {}

(***************************************************************************)
(* C4                                                                      *)
(***************************************************************************)
Unrecognized(r) == ~Recognized(r)

AllUndefined(r) == \A f \in DerivedFields : r[f] = {}

\* the rows other than the i-th have the derived fields they have when the
\* catalog is run without that row (a run that stops at once when the rows left
\* have no conversion level at all: then the i-th row is the only one kept)
OthersAsWithout(s, i, run(_, _, _)) ==
    LET rest == Without(dashboard_catalog, s.dashboard_df[i].index)
    IN  IF str_raises(rest) THEN Len(s.dashboard_df) = 1
        ELSE Derived(Without(s.dashboard_df, i)) =
                 Derived(run(rest, effort_levels, hourly_rates))

\* C4: a row with an unrecognized status or a level that is no key of the
\* effort table does not abort the run (a run fails only on an infinite page
\* count or on a catalog without any conversion level); its six derived fields
\* are undefined, and every other row has the derived fields it has in the run
\* at the end of the run without that row.
C4_UnrecognizedRow ==
    /\ \A s \in {da, dc} : FailsOnlyOnInput(s)
    /\ \A s \in {da, dc} :
          HasCosts(s) =>
              \A i \in 1..Len(s.dashboard_df) :
                  Unrecognized(s.dashboard_df[i]) => AllUndefined(s.dashboard_df[i])
    /\ Done(da) =>
          \A i \in 1..Len(da.dashboard_df) :
              Unrecognized(da.dashboard_df[i]) => OthersAsWithout(da, i, frame)
    /\ Done(dc) =>
          \A i \in 1..Len(dc.dashboard_df) :
              Unrecognized(dc.dashboard_df[i]) => OthersAsWithout(dc, i, cat_frame)

C4_Witness ==
    /\ Done(da) /\ Done(dc)
    /\ Len(da.dashboard_df) = 2
    /\ da.dashboard_df[1].status = <<"u","n","k","n","o","w","n">>
    /\ da.dashboard_df[2].conversion_level = {<<"z","z","z">>}
    /\ AllUndefined(da.dashboard_df[1]) /\ AllUndefined(dc.dashboard_df[2])

\* an unrecognized row beside a recognized one, which keeps its costs
C4_WitnessOther ==
    /\ Done(da)
    /\ Len(da.dashboard_df) = 2
    /\ Unrecognized(da.dashboard_df[1])
    /\ da.dashboard_df[2].total_cost = {71500000}

(***************************************************************************)
(* C5                                                                      *)
(***************************************************************************)
\* the catalog with its rows in the order given by the permutation pi
Permuted(pi) == [i \in 1..Len(dashboard_catalog) |-> dashboard_catalog[pi[i]]]

TotalsOf(df) ==
    <<sum(df, "adjusted_hours"), sum(df, "jr_cost"), sum(df, "mgr_cost")>>

\* C5: total_hours, total_jr_cost and total_mgr_cost are the sums of
\* adjusted_hours, jr_cost and mgr_cost over the rows where the field is
\* defined (undefined rows add nothing and leave the total defined), and the
\* run on any permutation of the catalog rows ends with the same three totals.
C5_Totals ==
    /\ \A s \in {da, dc} :
          HasTotals(s) =>
              /\ s.total_hours = SumDefined(s.dashboard_df, "adjusted_hours")
              /\ s.total_jr_cost = SumDefined(s.dashboard_df, "jr_cost")
              /\ s.total_mgr_cost = SumDefined(s.dashboard_df, "mgr_cost")
    /\ Done(da) =>
          \A pi \in Permutations(1..Len(dashboard_catalog)) :
              TotalsOf(frame(Permuted(pi), effort_levels, hourly_rates))
                 = <<da.total_hours, da.total_jr_cost, da.total_mgr_cost>>
    /\ Done(dc) =>
          \A pi \in Permutations(1..Len(dashboard_catalog)) :
              TotalsOf(cat_frame(Permuted(pi), effort_levels, hourly_rates))
                 = <<dc.total_hours, dc.total_jr_cost, dc.total_mgr_cost>>

C5_Witness ==
    /\ Done(da) /\ Done(dc)
    /\ Len(da.dashboard_df) = 2
    /\ da.dashboard_df[1].adjusted_hours = {}
    /\ da.dashboard_df[2].adjusted_hours = {11000}
    /\ da.total_hours = {11000}
    /\ dc.total_hours = {11000}

(***************************************************************************)
(* C6                                                                      *)
(***************************************************************************)
NoEntry(role) == \A i \in 1..Len(hourly_rates) : hourly_rates[i].position # role

\* total_hours of the run on the same catalog and effort table with the
\* scenario rate table, which has both roles
HoursWithBothRates(run(_, _, _)) ==
    sum(run(dashboard_catalog, effort_levels, ScenarioRates), "adjusted_hours")

C6Script(s, run(_, _, _)) ==
    /\ (HasCosts(s) /\ NoEntry("Junior Analyst")) =>
          /\ s.jr_rate = {0}
          /\ \A i \in 1..Len(s.dashboard_df) :
                LET r == s.dashboard_df[i]
                IN  r.jr_hours # {} => r.jr_cost = {0} /\ r.total_cost = r.mgr_cost
    /\ (HasCosts(s) /\ NoEntry("Manager")) =>
          /\ s.mgr_rate = {0}
          /\ \A i \in 1..Len(s.dashboard_df) :
                LET r == s.dashboard_df[i]
                IN  r.mgr_hours # {} => r.mgr_cost = {0} /\ r.total_cost = r.jr_cost
    /\ (HasTotals(s) /\ NoEntry("Junior Analyst")) => s.total_jr_cost = {0}
    /\ (HasTotals(s) /\ NoEntry("Manager")) => s.total_mgr_cost = {0}
    /\ (Done(s) /\ (NoEntry("Junior Analyst") \/ NoEntry("Manager"))) =>
          s.total_hours = HoursWithBothRates(run)
    /\ (NoEntry("Junior Analyst") \/ NoEntry("Manager")) => FailsOnlyOnInput(s)

\* C6: when the rate table has no entry for a role, the role's rate is 0; every
\* row whose hours for the role are defined has cost 0 for it and a total_cost
\* equal to the other role's cost; the role's cost total is 0; total_hours is
\* what it is with both roles present; and the run does not fail for it.
C6_MissingRate == C6Script(da, frame) /\ C6Script(dc, cat_frame)

C6_Witness ==
    /\ Done(da) /\ Done(dc)
    /\ NoEntry("Junior Analyst")
    /\ \E i \in 1..Len(da.dashboard_df) :
          /\ da.dashboard_df[i].jr_cost = {0}
          /\ da.dashboard_df[i].total_cost = {33000000}
          /\ dc.dashboard_df[i].total_cost = {33000000}
    /\ da.total_jr_cost = {0}
    /\ da.total_hours # {0}

(***************************************************************************)
(* C7                                                                      *)
(***************************************************************************)
\* a catalog row with a dashboard name and an estimated conversion level
Complete(row) == row.dashboard_name # {} /\ row.estimated_conversion_level # {}

CompleteRows == {i \in 1..Len(dashboard_catalog) : Complete(dashboard_catalog[i])}

\* the catalog with its incomplete rows taken out
CompleteCatalog == SelectSeq(dashboard_catalog, Complete)

C7Script(s, run(_, _, _)) ==
    /\ HasFrame(s) =>
          /\ {s.dashboard_df[i].index : i \in 1..Len(s.dashboard_df)} = CompleteRows
          /\ Len(s.dashboard_df) = Cardinality(CompleteRows)
          /\ \A i, j \in 1..Len(s.dashboard_df) :
                i < j => s.dashboard_df[i].index < s.dashboard_df[j].index
          /\ \A i \in 1..Len(s.dashboard_df) :
                s.dashboard_df[i].dashboard # {} /\ s.dashboard_df[i].conversion_level # {}
    /\ Done(s) =>
          LET df == run(CompleteCatalog, effort_levels, hourly_rates)
          IN  /\ Derived(s.dashboard_df) = Derived(df)
              /\ <<s.total_hours, s.total_jr_cost, s.total_mgr_cost>> = TotalsOf(df)

\* C7: the rows that reach the cost model are exactly the catalog rows that have
\* both a dashboard name and an estimated conversion level, in catalog order,
\* whatever their pages and status cells hold; the run ends with the per-row
\* outputs and the totals of the run on the catalog without the discarded rows.
C7_RowFilter == C7Script(da, frame) /\ C7Script(dc, cat_frame)

C7_Witness ==
    /\ Done(da) /\ Done(dc)
    /\ Len(dashboard_catalog) = 2
    /\ dashboard_catalog[1].estimated_conversion_level = {}
    /\ dashboard_catalog[2].status = {}
    /\ dashboard_catalog[2].available_data_pages.kind = "text"
    /\ Len(da.dashboard_df) = 1 /\ da.dashboard_df[1].index = 2
    /\ Len(dc.dashboard_df) = 1 /\ dc.dashboard_df[1].index = 2

(***************************************************************************)
(* C8                                                                      *)
(***************************************************************************)
FinitePages(r) == r.pages.kind = "num"

C8Script(s) ==
    HasPageFactor(s) =>
        /\ \A i, j \in 1..Len(s.dashboard_df) :
              LET p == s.dashboard_df[i]
                  q == s.dashboard_df[j]
              IN  (FinitePages(p) /\ FinitePages(q) /\ p.pages.val <= q.pages.val)
                      => Val(p.page_factor) <= Val(q.page_factor)
        /\ \A i \in 1..Len(s.dashboard_df) :
              LET p == s.dashboard_df[i]
              IN  (FinitePages(p) /\ p.pages.val >= 10 * PageDenom) => p.page_factor = {145}

\* C8: over the finite page counts (negative, 0, 1..10, above 10, whole or
\* fractional) page_multiplier is non-decreasing, and every page count of 10 or
\* more yields 1.45.
C8_Monotone == C8Script(da) /\ C8Script(dc)

C8_Witness ==
    /\ HasPageFactor(da) /\ HasPageFactor(dc)
    /\ da.dashboard_df[1].pages = FloatNum(3 * PageDenom + 1)
    /\ da.dashboard_df[2].pages = FloatNum(11 * PageDenom)
    /\ da.dashboard_df[1].page_factor = {110}
    /\ da.dashboard_df[2].page_factor = {145}
    /\ dc.dashboard_df[2].page_factor = {145}

(***************************************************************************)
(* C9                                                                      *)
(***************************************************************************)
BothDone == Done(da) /\ Done(dc)

\* the two scripts agree on everything but the single-rate total
SameButSingleRate ==
    /\ (HasFrame(da) /\ HasFrame(dc) /\ da.pc = dc.pc) => da.dashboard_df = dc.dashboard_df
    /\ (Failed(da) /\ Failed(dc)) => da = dc
    /\ (Failed(da) /\ da.raised = "AttributeError") => dc.pc \in {"clean", "error"}
    /\ (Failed(dc) /\ dc.raised = "AttributeError") => da.pc \in {"clean", "error"}
    /\ Failed(da) => ~HasPageFactor(dc)
    /\ Failed(dc) => ~HasPageFactor(da)
    /\ BothDone =>
          /\ da.total_hours = dc.total_hours
          /\ da.total_jr_cost = dc.total_jr_cost
          /\ da.total_mgr_cost = dc.total_mgr_cost
          /\ da.role_split_total = dc.role_split_total
          /\ da.jr_rate = dc.jr_rate /\ da.mgr_rate = dc.mgr_rate
          /\ da.single_rate_total = Times(da.total_hours, {43})
          /\ dc.single_rate_total = Times(dc.total_hours, dc.jr_rate)
          /\ dc.contractor_total_cost = dc.single_rate_total

\* C9 as stated: the scripts give the same rows and the same three totals and
\* differ only in the single-rate total (total_hours * 43 against total_hours *
\* jr_rate), so that the single-rate totals coincide exactly when jr_rate = 43
\* or total_hours = 0.
C9_AsStated ==
    /\ SameButSingleRate
    /\ BothDone =>
          ((da.single_rate_total = dc.single_rate_total)
              <=> (dc.jr_rate = {43} \/ dc.total_hours = {0}))

\* C9 amended: as stated, but the single-rate totals coincide exactly when
\* jr_rate = 43, or total_hours = 0 and jr_rate is defined (with an empty
\* junior rate cell the second script's total is undefined, the first one's not).
C9_Equivalence ==
    /\ SameButSingleRate
    /\ BothDone =>
          ((da.single_rate_total = dc.single_rate_total)
              <=> (dc.jr_rate = {43} \/ (dc.total_hours = {0} /\ dc.jr_rate # {})))

C9_Witness ==
    /\ BothDone
    /\ Len(da.dashboard_df) = 2
    /\ da.dashboard_df = dc.dashboard_df
    /\ dc.jr_rate = {43}
    /\ da.total_hours = {22000}
    /\ da.single_rate_total = {946000}
    /\ dc.single_rate_total = {946000}

\* the scripts differ: same hours, another junior rate
C9_WitnessDiffer ==
    /\ BothDone
    /\ dc.jr_rate = {50}
    /\ da.total_hours = {11000}
    /\ da.single_rate_total = {473000}
    /\ dc.single_rate_total = {550000}

(***************************************************************************)
(* C10                                                                     *)
(***************************************************************************)
RoleSplitIsRowSum(s) ==
    s.role_split_total = SumDefined(s.dashboard_df, "total_cost")

\* C10 as stated: total_jr_cost + total_mgr_cost is the sum of total_cost over
\* the rows where total_cost is defined, whatever the input tables hold.
C10_AsStated ==
    \A s \in {da, dc} : Done(s) => RoleSplitIsRowSum(s)

\* every row has both role costs or neither
CostsDefinedTogether(s) ==
    \A i \in 1..Len(s.dashboard_df) :
        (s.dashboard_df[i].jr_cost = {}) <=> (s.dashboard_df[i].mgr_cost = {})

\* C10 amended: total_jr_cost + total_mgr_cost is the sum of total_cost over
\* the rows where total_cost is defined whenever every row has both of jr_cost
\* and mgr_cost defined or neither.
C10_RoleSplit ==
    \A s \in {da, dc} :
        (Done(s) /\ CostsDefinedTogether(s)) => RoleSplitIsRowSum(s)

C10_Witness ==
    /\ BothDone
    /\ Len(da.dashboard_df) = 2
    /\ da.dashboard_df[1].total_cost = {}
    /\ da.dashboard_df[2].total_cost = {71500000}
    /\ CostsDefinedTogether(da) /\ CostsDefinedTogether(dc)
    /\ da.role_split_total = {71500000}
    /\ dc.role_split_total = {71500000}

====
